---- MODULE Spec2Model ----
(***************************************************************************)
(* GurobiLBLowerBounder of examples/stochastic_pid/stochastic_pid.py: the  *)
(* adaptive MIP-gap schedule and the classification of a subproblem solve. *)
(*                                                                         *)
(* The gap is a Python float.  Every value the schedule can produce from   *)
(* the gaps studied here is a multiple of 2^-59, so a double is held       *)
(* exactly as hi * 2^30 + lo units of 2^-59 and the subtraction is         *)
(* the IEEE-754 one: exact difference, then round-to-nearest-even to a     *)
(* 53-bit significand.                                                     *)
(***************************************************************************)
EXTENDS Integers, Sequences, FiniteSets, TLC

VARIABLES size, MIPGap0, iter, current_milp_gap, optMIPGap, last

vars == <<size, MIPGap0, iter, current_milp_gap, optMIPGap, last>>

-----------------------------------------------------------------------------
(* Bounds of the model *)

MaxIter == 200

MaxTotalMPI == 96

-----------------------------------------------------------------------------
(* Program constants *)

num_scenarios == 5

warmup_sweeps == 18

-----------------------------------------------------------------------------
(* Python floats (IEEE-754 binary64), in units of 2^-59 *)

LimbBase == 2^30

Dbl(h, l) == [kind |-> "float", neg |-> FALSE, hi |-> h, lo |-> l]

None == [kind |-> "None", neg |-> FALSE, hi |-> 0, lo |-> 0]

Zero == Dbl(0, 0)

\* the literal 1e-2 / 0.01 = 0x1.47ae147ae147bp-7
Floor == Dbl(5368709, 128849019)

Decrement == Dbl(5368709, 128849019)

\* the literal 0.2 = 0x1.999999999999ap-3
ConfiguredMIPGap == Dbl(107374182, 429496736)

IsNone(x) == x.kind = "None"

MagLt(a, b) == a.hi < b.hi \/ (a.hi = b.hi /\ a.lo < b.lo)

\* a < b on floats
FLt(a, b) ==
    IF a.neg /\ ~b.neg THEN TRUE
    ELSE IF ~a.neg /\ b.neg THEN FALSE
    ELSE IF a.neg THEN MagLt(b, a)
    ELSE MagLt(a, b)

\* exact |a| - |b| for |a| >= |b|
MagSub(a, b) ==
    IF a.lo >= b.lo
    THEN [hi |-> a.hi - b.hi, lo |-> a.lo - b.lo]
    ELSE [hi |-> a.hi - b.hi - 1, lo |-> a.lo - b.lo + LimbBase]

\* spacing of the doubles around a magnitude, in units of 2^-59:
\* magnitudes below 2^53 units are exact
RECURSIVE UlpOf(_)
UlpOf(h) == IF h < 2^23 THEN 1 ELSE 2 * UlpOf(h \div 2)

\* round-to-nearest, ties-to-even, to a 53-bit significand
RoundMag(m) ==
    LET k    == UlpOf(m.hi)
        q    == m.lo % k
        down == m.lo - q
        up   == IF 2 * q < k THEN FALSE
                ELSE IF 2 * q > k THEN TRUE
                ELSE (down \div k) % 2 = 1
        l    == IF up THEN down + k ELSE down
    IN  IF l = LimbBase THEN [hi |-> m.hi + 1, lo |-> 0]
        ELSE [hi |-> m.hi, lo |-> l]

\* a - b for floats a >= 0, b >= 0
FSub(a, b) ==
    IF MagLt(a, b)
    THEN LET m == RoundMag(MagSub(b, a))
         IN  [kind |-> "float", neg |-> TRUE, hi |-> m.hi, lo |-> m.lo]
    ELSE LET m == RoundMag(MagSub(a, b))
         IN  [kind |-> "float", neg |-> FALSE, hi |-> m.hi, lo |-> m.lo]

Max(a, b) == IF a >= b THEN a ELSE b

-----------------------------------------------------------------------------
(* Solver results: results.solver.termination_condition, .status,          *)
(* results.problem.lower_bound and the objective value of the solution the *)
(* results carry                                                           *)

Result(tc, st, lb, ob) == [tc |-> tc, status |-> st, lower_bound |-> lb, obj |-> ob]

NoResult == Result("none", "none", 0, 0)

\* what self.opt.solve (gurobi) can report
GurobiResults ==
    { Result("optimal", "ok", 2, 4),
      Result("optimal", "warning", 2, 4),
      Result("infeasible", "warning", 2, 4),
      Result("maxTimeLimit", "aborted", 2, 4),
      Result("error", "error", 2, 4) }

\* what ipopt.solve can report
IpoptResults ==
    { Result("optimal", "ok", 0, 5),
      Result("optimal", "warning", 0, 5),
      Result("infeasible", "warning", 0, 5),
      Result("maxIterations", "warning", 0, 5),
      Result("maxTimeLimit", "aborted", 0, 5) }

\* pyo.value(subproblem_model.successor_obj)
ParentObjs == {1, 3}

\* solver.options["MIPGap"] handed to the constructor
InitialGaps ==
    { ConfiguredMIPGap,
      Dbl(10737418, 257698038),    \* 0.02
      Dbl(8053063, 730144440),     \* 0.015
      Floor,                       \* 0.01
      Zero,                        \* 0.0
      None }

Ranks == 0 .. (size - 1)

NoCall ==
    [rank |-> 0, kind |-> "init", feasible |-> FALSE, bound |-> <<>>,
     solved |-> FALSE, mipgap |-> None, global |-> NoResult,
     resolved |-> FALSE, local |-> NoResult, final |-> NoResult, parent |-> 0]

-----------------------------------------------------------------------------
(* GurobiLBLowerBounder.__init__, one bounder and one solver per process *)

Construct(n, gap) ==
    /\ size = n
    /\ MIPGap0 = gap
    /\ iter = [r \in 0 .. (n - 1) |-> 0]
    /\ current_milp_gap = [r \in 0 .. (n - 1) |-> gap]
    /\ optMIPGap = [r \in 0 .. (n - 1) |-> gap]
    /\ last = NoCall

\* a serial run, over the gaps a caller may configure
Init == \E gap \in InitialGaps : Construct(1, gap)

\* a run on two MPI ranks with the gap __main__ configures
InitMPI == Construct(2, ConfiguredMIPGap)

-----------------------------------------------------------------------------
(* GurobiLBLowerBounder.solve_a_subproblem *)

\* variant: the warm-up test taken as >=
ScheduleFiresAtWarmup(it, gap) ==
    /\ it % num_scenarios = 0
    /\ gap # Floor
    /\ it >= num_scenarios * warmup_sweeps

\* the condition of the schedule, on the incremented call counter
ScheduleFires(it, gap) ==
    /\ it % num_scenarios = 0
    /\ gap # Floor
    /\ it > num_scenarios * warmup_sweeps

\* self.current_milp_gap -= 0.01, reset to 1e-2 when it went negative
Tighten(gap) ==
    LET g == FSub(gap, Decrement)
    IN  IF FLt(g, Zero) THEN Floor ELSE g

\* variant: the option of the solver handle is never rewritten
KeepMIPGapOption(fires, newgap, oldopt) == oldopt

\* self.opt.options["MIPGap"] after the schedule step
NewMIPGapOption(fires, newgap, oldopt) == IF fires THEN newgap ELSE oldopt

\* gurobi ran into its time limit: ipopt solves the model again
Resolves(g) == g.tc = "maxTimeLimit"

\* variant: no fallback, gurobi's results are classified
GurobiResultsOnly(g, l) == g

\* the results that are classified: ipopt's after a gurobi time limit
FinalResults(g, l) == IF Resolves(g) THEN l ELSE g

\* variant: the solver status is not looked at
AcceptedAnyStatus(res) == res.tc = "optimal"

Accepted(res) == res.tc = "optimal" /\ res.status = "ok"

\* the value returned for accepted results
ReturnedBound(gap, parent, res) ==
    IF FLt(Zero, gap) THEN Max(parent, res.lower_bound) ELSE res.obj

\* the outcome of the call once the solves are done
Classify(gap, parent, res) ==
    IF Accepted(res)
    THEN IF IsNone(gap)
         THEN [kind |-> "TypeError", feasible |-> FALSE, bound |-> <<>>]
         ELSE [kind |-> "return", feasible |-> TRUE,
               bound |-> <<ReturnedBound(gap, parent, res)>>]
    ELSE IF res.tc = "infeasible"
         THEN [kind |-> "return", feasible |-> FALSE, bound |-> <<>>]
         ELSE [kind |-> "RuntimeError", feasible |-> FALSE, bound |-> <<>>]

\* calls made so far by ranks 0 .. n
RECURSIVE SolvesUpTo(_)
SolvesUpTo(n) == IF n < 0 THEN 0 ELSE iter[n] + SolvesUpTo(n - 1)

TotalSolves == SolvesUpTo(size - 1)

solve_a_subproblem(r, g, l, parent) ==
    LET it      == iter[r] + 1
        gap     == current_milp_gap[r]
        fires   == ScheduleFires(it, gap)
        raises  == fires /\ IsNone(gap)
        newgap  == IF fires /\ ~raises THEN Tighten(gap) ELSE gap
        newopt  == NewMIPGapOption(fires /\ ~raises, newgap, optMIPGap[r])
        res     == FinalResults(g, l)
        out     == Classify(newgap, parent, res)
    IN  /\ iter[r] < MaxIter
        /\ size > 1 => TotalSolves < MaxTotalMPI
        /\ iter' = [iter EXCEPT ![r] = it]
        /\ current_milp_gap' = [current_milp_gap EXCEPT ![r] = newgap]
        /\ optMIPGap' = [optMIPGap EXCEPT ![r] = newopt]
        /\ last' = IF raises
                   THEN [NoCall EXCEPT !.rank = r, !.kind = "TypeError",
                                       !.parent = parent]
                   ELSE [rank |-> r, kind |-> out.kind,
                         feasible |-> out.feasible, bound |-> out.bound,
                         solved |-> TRUE, mipgap |-> newopt, global |-> g,
                         resolved |-> Resolves(g),
                         local |-> l,
                         final |-> res, parent |-> parent]
        /\ UNCHANGED <<size, MIPGap0>>

Next ==
    \E r \in Ranks, g \in GurobiResults, p \in ParentObjs :
        \E l \in (IF Resolves(g) THEN IpoptResults ELSE {NoResult}) :
            solve_a_subproblem(r, g, l, p)

Spec == Init /\ [][Next]_vars

SpecMPI == InitMPI /\ [][Next]_vars

-----------------------------------------------------------------------------
(* Properties *)

\* the literal 0.19 = 0x1.851eb851eb852p-3
Gap019 == Dbl(102005473, 300647712)

FirstTightening == (warmup_sweeps + 1) * num_scenarios

Returned(feasible, bound) ==
    last.kind = "return" /\ last.feasible = feasible /\ last.bound = bound

ReturnedValue == last.kind = "return" /\ last.feasible /\ Len(last.bound) = 1

\* C1, as stated: with the gap configured to 0.2, after exactly
\* warmup_sweeps * num_scenarios + 1 = 91 calls the gap equals 0.19.
C1_GapAfterWarmupPlusOne ==
    \A r \in Ranks :
        (MIPGap0 = ConfiguredMIPGap /\ iter[r] = warmup_sweeps * num_scenarios + 1)
            => current_milp_gap[r] = Gap019

\* C1, amended: with the gap configured to 0.2, the gap is still 0.2 through
\* call 94 (call 91 included) and after exactly
\* (warmup_sweeps + 1) * num_scenarios = 95 calls it is one decrement lower,
\* 0.2 - 0.01 = 0.19.
C1_GapAfterFirstTightening ==
    \A r \in Ranks :
        MIPGap0 = ConfiguredMIPGap =>
            /\ iter[r] < FirstTightening => current_milp_gap[r] = ConfiguredMIPGap
            /\ iter[r] = FirstTightening =>
                   /\ current_milp_gap[r] = Gap019
                   /\ current_milp_gap[r] = FSub(ConfiguredMIPGap, Decrement)

C1_Witness ==
    /\ MIPGap0 = ConfiguredMIPGap
    /\ last.kind # "init"
    /\ iter[last.rank] = FirstTightening
    /\ current_milp_gap[last.rank] = Gap019

\* C2: for a configured gap at or above the floor 0.01, current_milp_gap and
\* the MIPGap option in effect at a gurobi solve are never below 0.01.
C2_GapNeverBelowFloor ==
    \A r \in Ranks :
        (~IsNone(MIPGap0) /\ ~FLt(MIPGap0, Floor)) =>
            /\ ~FLt(current_milp_gap[r], Floor)
            /\ (last.solved /\ last.rank = r) => ~FLt(last.mipgap, Floor)

C4_TerminationAloneDecides ==
    (last.solved /\ ~IsNone(MIPGap0)) =>
        /\ last.final.tc = "optimal" => ReturnedValue
        /\ last.final.tc = "infeasible" => Returned(FALSE, <<>>)
        /\ last.final.tc \notin {"optimal", "infeasible"} => last.kind = "RuntimeError"

\* C4, amended: the final termination condition together with the solver
\* status decides the outcome: optimal with status ok returns (True, value)
\* (a TypeError when no gap was configured), optimal with another status
\* raises the fatal error, infeasible returns (False, None) and is never
\* fatal, every other termination raises the fatal error.
C4_TerminationAndStatusDecide ==
    last.solved =>
        LET f   == last.final
            gap == current_milp_gap[last.rank]
        IN  /\ last.kind \in {"return", "RuntimeError", "TypeError"}
            /\ (f.tc = "optimal" /\ f.status = "ok" /\ ~IsNone(gap)) => ReturnedValue
            /\ (f.tc = "optimal" /\ f.status = "ok" /\ IsNone(gap)) => last.kind = "TypeError"
            /\ (f.tc = "optimal" /\ f.status # "ok") => last.kind = "RuntimeError"
            /\ f.tc = "infeasible" => Returned(FALSE, <<>>)
            /\ f.tc \notin {"optimal", "infeasible"} => last.kind = "RuntimeError"

C4_Witness ==
    /\ last.solved
    /\ last.final.tc = "optimal"
    /\ last.final.status = "warning"
    /\ last.kind = "RuntimeError"

\* C5, as stated (for a configured gap): after a gurobi time limit the call
\* solves again with ipopt and returns (True, value), never a fatal error.
C5_TimeLimitAlwaysReturnsValue ==
    (last.solved /\ last.global.tc = "maxTimeLimit" /\ ~IsNone(MIPGap0)) =>
        last.resolved /\ ReturnedValue

\* C5, amended: after a gurobi time limit (and only then) the call solves
\* again with ipopt, and its outcome is the classification of the ipopt
\* results: (True, value from the ipopt results) when they are optimal with
\* status ok (a TypeError when no gap was configured), (False, None) when
\* infeasible, the fatal error otherwise.
C5_TimeLimitClassifiesLocalResults ==
    last.solved =>
        LET gap == current_milp_gap[last.rank]
            l   == last.local
        IN  /\ last.resolved <=> last.global.tc = "maxTimeLimit"
            /\ ~last.resolved => last.final = last.global
            /\ last.resolved =>
                /\ l \in IpoptResults
                /\ last.final = l
                /\ (l.tc = "optimal" /\ l.status = "ok" /\ ~IsNone(gap)) =>
                       Returned(TRUE, << IF FLt(Zero, gap)
                                         THEN Max(last.parent, l.lower_bound)
                                         ELSE l.obj >>)
                /\ (l.tc = "optimal" /\ l.status = "ok" /\ IsNone(gap)) =>
                       last.kind = "TypeError"
                /\ l.tc = "infeasible" => Returned(FALSE, <<>>)
                /\ (l.tc # "infeasible" /\ ~(l.tc = "optimal" /\ l.status = "ok")) =>
                       last.kind = "RuntimeError"

C5_Witness ==
    /\ last.solved
    /\ last.global.tc = "maxTimeLimit"
    /\ last.resolved
    /\ last.local.tc = "maxIterations"
    /\ last.kind = "RuntimeError"

\* C6: on several ranks the schedule is driven by one shared counter: the gap
\* of every rank is the one the total number of solves gives (unchanged
\* below 95 solves in total, one decrement lower from 95 to 99).
C6_SharedSweepCounter ==
    \A r \in Ranks :
        /\ TotalSolves < FirstTightening => current_milp_gap[r] = MIPGap0
        /\ (TotalSolves >= FirstTightening
              /\ TotalSolves < FirstTightening + num_scenarios) =>
                 current_milp_gap[r] = FSub(MIPGap0, Decrement)

\* C7, as stated: no call changes the MIPGap option of the solver handle.
C7_SolverOptionUntouched == [][optMIPGap' = optMIPGap]_vars

\* C7, amended: a call changes nothing of the bounder but iter,
\* current_milp_gap and the MIPGap option of the solver handle; gap and
\* option change only on a call on which the schedule fires, and the option
\* then holds the new gap.
C7_FrameOfACall ==
    [][ /\ size' = size
        /\ MIPGap0' = MIPGap0
        /\ \A r \in Ranks :
            /\ iter'[r] \in {iter[r], iter[r] + 1}
            /\ iter'[r] = iter[r] =>
                   /\ current_milp_gap'[r] = current_milp_gap[r]
                   /\ optMIPGap'[r] = optMIPGap[r]
            /\ (current_milp_gap'[r] # current_milp_gap[r]
                  \/ optMIPGap'[r] # optMIPGap[r]) =>
                   /\ iter'[r] % num_scenarios = 0
                   /\ iter'[r] > num_scenarios * warmup_sweeps
                   /\ current_milp_gap'[r] # current_milp_gap[r]
                   /\ optMIPGap'[r] = current_milp_gap'[r] ]_vars

C7_Witness ==
    /\ last.kind # "init"
    /\ optMIPGap[last.rank] # MIPGap0
    /\ optMIPGap[last.rank] = current_milp_gap[last.rank]

\* C8: with no gap configured (None) no call fails for the missing gap, the
\* gap stays None, and every call whose results are optimal with status ok
\* returns (True, objective value of the subproblem).
C8_UnspecifiedGapIsClassical ==
    IsNone(MIPGap0) =>
        /\ last.kind # "TypeError"
        /\ \A r \in Ranks : IsNone(current_milp_gap[r])
        /\ (last.solved /\ last.final.tc = "optimal" /\ last.final.status = "ok") =>
               Returned(TRUE, <<last.final.obj>>)

\* C9: with the gap configured to 0.2, a call changes the gap only when its
\* call number is a multiple of num_scenarios above 90, every change lowers
\* it by one decrement 0.01, and the gap never increases.
C9_DecrementOnly ==
    [][ \A r \in Ranks :
            MIPGap0 = ConfiguredMIPGap =>
                /\ current_milp_gap'[r] # current_milp_gap[r] =>
                       /\ iter'[r] % num_scenarios = 0
                       /\ iter'[r] > num_scenarios * warmup_sweeps
                       /\ current_milp_gap'[r] = FSub(current_milp_gap[r], Decrement)
                /\ ~FLt(current_milp_gap[r], current_milp_gap'[r]) ]_vars

\* C10: with the gap configured to 0.2, from call 185 (19 decrements) on the
\* gap is the floor 0.01, and the MIPGap option in effect at every gurobi
\* solve is current_milp_gap.
C10_ConvergesToFloor ==
    \A r \in Ranks :
        MIPGap0 = ConfiguredMIPGap =>
            /\ iter[r] >= (warmup_sweeps + 19) * num_scenarios =>
                   current_milp_gap[r] = Floor
            /\ (last.solved /\ last.rank = r) => last.mipgap = current_milp_gap[r]

=============================================================================
